---- MODULE Spec2Model ----
(***************************************************************************)
(* Model of test-project/scripts/env_setup.py.                             *)
(*                                                                         *)
(* One run of main(): read UBER_GLOBAL_COMMAND_ARGS, split it on           *)
(* whitespace, hand the tokens to argparse's parse_known_args (a parser    *)
(* with the automatic -h/--help option and the one option --name), build   *)
(* the greeting, print the DEMO_GREETING line on stdout and the note on    *)
(* stderr.  Strings are TLA+ strings (sequences of characters), so that    *)
(* splitting, prefix matching and formatting are computed, not assumed.    *)
(*                                                                         *)
(* parse_known_args is the standard library's; it is modelled here from    *)
(* its behaviour for this parser (CPython 3.11 argparse): classification   *)
(* of each token by _parse_optional (exact option, "=" form, unambiguous   *)
(* prefix abbreviation, negative number, unknown option), then the         *)
(* left-to-right consumption of options.  The token "--" is not part of    *)
(* the input alphabet.  The program name in argparse's messages is taken   *)
(* to be the script's file name.                                           *)
(***************************************************************************)
EXTENDS Integers, Sequences, FiniteSets, TLC

VARIABLES
    env,              \* UBER_GLOBAL_COMMAND_ARGS: None (absent) or Some(string)
    tokens_in,        \* history: the tokens the environment string was built from
    pc,               \* position of the run in main()
    global_args_str,  \* local of main()
    parse_called,     \* history: parse_known_args has been called
    args_name,        \* args.name: None or Some(string)
    greeting,         \* local of main()
    stdout,           \* lines written to standard output
    stderr,           \* lines written to standard error
    exit_status       \* None while running, Some(code) once the process has exited

vars == <<env, tokens_in, pc, global_args_str, parse_called, args_name,
          greeting, stdout, stderr, exit_status>>

(***************************************************************************)
(* Bounds and input alphabet                                               *)
(***************************************************************************)
MaxTokens == 3

TokenAlphabet ==
    {"--name", "--na", "--name=", "--name=Ada", "--foo", "-h", "-5", "Ada", "Bob"}

\* Longer inputs: the worked examples of the documentation and inputs with
\* several --name pairs.
ExampleInputs ==
    { <<"--name", "World">>,
      <<"--foo", "bar", "--name", "Ada", "--baz">>,
      <<"--name", "Ada", "--name", "Bob">>,
      <<"--foo", "--name", "Ada", "--name", "Bob">>,
      <<"--name", "Ada", "--name", "Bob", "--name">>,
      <<"--name", "Ada", "--name", "Bob", "-h">>,
      <<"--help">>, <<"-hh">>, <<"-hx">>, <<"--help=x">>, <<"--=x">>, <<"-.5">> }

\* How the tokens are laid out in the environment string.
WhitespaceStyles ==
    { [lead |-> "",  sep |-> " ",   trail |-> ""],
      [lead |-> " ", sep |-> "\t ", trail |-> "\n"] }

None == <<>>
Some(x) == <<x>>

RECURSIVE SeqsUpTo(_, _)
SeqsUpTo(S, n) ==
    IF n = 0 THEN { <<>> }
    ELSE LET shorter == SeqsUpTo(S, n - 1)
         IN  shorter \cup { Append(s, x) : s \in shorter, x \in S }

InputTokens == SeqsUpTo(TokenAlphabet, MaxTokens) \cup ExampleInputs

RECURSIVE JoinTokens(_, _)
JoinTokens(toks, sep) ==
    IF toks = <<>> THEN ""
    ELSE IF Len(toks) = 1 THEN toks[1]
    ELSE toks[1] \o sep \o JoinTokens(Tail(toks), sep)

Layout(toks, style) == style.lead \o JoinTokens(toks, style.sep) \o style.trail

(***************************************************************************)
(* String helpers                                                          *)
(***************************************************************************)
Char(s, i) == SubSeq(s, i, i)

StartsWith(s, prefix) ==
    Len(prefix) <= Len(s) /\ SubSeq(s, 1, Len(prefix)) = prefix

RECURSIVE Find(_, _, _)
Find(s, c, i) ==
    IF i > Len(s) THEN 0
    ELSE IF Char(s, i) = c THEN i
    ELSE Find(s, c, i + 1)

Whitespace == {" ", "\t", "\n"}
Digits == {"0", "1", "2", "3", "4", "5", "6", "7", "8", "9"}

RECURSIVE AllDigits(_, _, _)
AllDigits(s, from, to) ==
    from > to \/ (Char(s, from) \in Digits /\ AllDigits(s, from + 1, to))

(***************************************************************************)
(* main(): the pieces                                                      *)
(***************************************************************************)
DefaultGreeting == "Hello from the env_setup.py script!"

\* os.environ.get("UBER_GLOBAL_COMMAND_ARGS", "")
EnvGet(e) == IF e = None THEN "" ELSE e[1]

\* defective variant of StrTruthy: tests "is not None" (always true here)
StrTruthyNotNone(s) == TRUE

\* if global_args_str:
StrTruthy(s) == s # ""

\* defective variant of NameTruthy: tests "is not None", accepts an empty name
NameTruthyNotNone(n) == n # None

\* if args.name:
NameTruthy(n) == n # None /\ n[1] # ""

\* global_args_str.split()
RECURSIVE SplitFrom(_, _, _, _)
SplitFrom(s, i, cur, acc) ==
    IF i > Len(s)
    THEN IF cur # "" THEN Append(acc, cur) ELSE acc
    ELSE IF Char(s, i) \in Whitespace
         THEN SplitFrom(s, i + 1, "", IF cur # "" THEN Append(acc, cur) ELSE acc)
         ELSE SplitFrom(s, i + 1, cur \o Char(s, i), acc)

Split(s) == SplitFrom(s, 1, "", <<>>)

\* f"Hello, {args.name}!"
Greet(name) == "Hello, " \o name \o "!"

\* f'DEMO_GREETING="{greeting}"'
StdoutLine(g) == "DEMO_GREETING=\"" \o g \o "\""

StderrLine == "env_setup.py: Setting DEMO_GREETING"

(***************************************************************************)
(* The parser built by ArgumentParser() and add_argument('--name')         *)
(***************************************************************************)
Prog == "env_setup.py"
PrefixChars == {"-"}

\* parser._option_string_actions, in insertion order
OptionStrings == <<"-h", "--help", "--name">>

IsOptionString(s) == \E i \in 1..Len(OptionStrings) : OptionStrings[i] = s

ActionOf(option_string) == IF option_string = "--name" THEN "name" ELSE "help"

\* _get_action_name
ActionName(action) == IF action = "name" THEN "--name" ELSE "-h/--help"

\* number of argument strings the action takes (nargs=None: 1, help: 0)
ArgCount(action) == IF action = "name" THEN 1 ELSE 0

UsageLine == "usage: " \o Prog \o " [-h] [--name NAME]"

HelpLines ==
    << UsageLine,
       "",
       "options:",
       "  -h, --help   show this help message and exit",
       "  --name NAME  A name to greet" >>

ErrorLine(message) == Prog \o ": error: " \o message

ArgumentError(action, msg) == "argument " \o ActionName(action) \o ": " \o msg

\* repr() of a string without quotes or backslashes
Repr(s) == "'" \o s \o "'"

Positional ==
    [kind |-> "A", action |-> "none", option_string |-> "", explicit_arg |-> None]

OptionTuple(action, option_string, explicit_arg) ==
    [kind |-> "O", action |-> action, option_string |-> option_string,
     explicit_arg |-> explicit_arg]

\* _negative_number_matcher: '^-\d+$|^-\d*\.\d+$'
IsNegativeNumber(s) ==
    /\ Len(s) >= 2
    /\ Char(s, 1) = "-"
    /\ \/ AllDigits(s, 2, Len(s))
       \/ LET dot == Find(s, ".", 1)
          IN  /\ dot > 0
              /\ dot < Len(s)
              /\ AllDigits(s, 2, dot - 1)
              /\ AllDigits(s, dot + 1, Len(s))

\* _get_option_tuples: the options the string abbreviates
GetOptionTuples(s) ==
    LET eq == Find(s, "=", 1)
        candidate(i) ==
            LET os == OptionStrings[i]
            IN  IF Char(s, 2) \in PrefixChars
                THEN LET option_prefix == IF eq > 0 THEN SubSeq(s, 1, eq - 1) ELSE s
                         explicit_arg == IF eq > 0
                                         THEN Some(SubSeq(s, eq + 1, Len(s)))
                                         ELSE None
                     IN  IF StartsWith(os, option_prefix)
                         THEN OptionTuple(ActionOf(os), os, explicit_arg)
                         ELSE Positional
                ELSE IF os = SubSeq(s, 1, 2)
                     THEN OptionTuple(ActionOf(os), os, Some(SubSeq(s, 3, Len(s))))
                     ELSE IF StartsWith(os, s)
                          THEN OptionTuple(ActionOf(os), os, None)
                          ELSE Positional
        all == [i \in 1..Len(OptionStrings) |-> candidate(i)]
    IN  SelectSeq(all, LAMBDA t : t.kind = "O")

RECURSIVE JoinMatches(_)
JoinMatches(tuples) ==
    IF Len(tuples) = 1 THEN tuples[1].option_string
    ELSE tuples[1].option_string \o ", " \o JoinMatches(Tail(tuples))

\* _parse_optional: "A" for a positional, "O" for an option (action "none"
\* when the parser has no such option), "ambiguous" for parser.error
ParseOptional(arg_string) ==
    IF arg_string = "" THEN Positional
    ELSE IF Char(arg_string, 1) \notin PrefixChars THEN Positional
    ELSE IF IsOptionString(arg_string)
         THEN OptionTuple(ActionOf(arg_string), arg_string, None)
    ELSE IF Len(arg_string) = 1 THEN Positional
    ELSE LET eq == Find(arg_string, "=", 1)
             before == SubSeq(arg_string, 1, eq - 1)
         IN  IF eq > 0 /\ IsOptionString(before)
             THEN OptionTuple(ActionOf(before), before,
                              Some(SubSeq(arg_string, eq + 1, Len(arg_string))))
             ELSE LET option_tuples == GetOptionTuples(arg_string)
                  IN  IF Len(option_tuples) > 1
                      THEN [kind |-> "ambiguous", action |-> "none",
                            option_string |-> arg_string,
                            explicit_arg |-> Some(JoinMatches(option_tuples))]
                      ELSE IF Len(option_tuples) = 1 THEN option_tuples[1]
                      ELSE IF IsNegativeNumber(arg_string) THEN Positional
                      ELSE IF Find(arg_string, " ", 1) > 0 THEN Positional
                      ELSE OptionTuple("none", arg_string, None)

Ok(name, extras) ==
    [kind |-> "ok", name |-> name, extras |-> extras, message |-> ""]
Help == [kind |-> "help", name |-> None, extras |-> <<>>, message |-> ""]
Error(message) ==
    [kind |-> "error", name |-> None, extras |-> <<>>, message |-> message]

\* consume_optional for an option written with an explicit argument
\* ("--name=Ada", "-hx"): the value to store, the help action, or an error.
\* The only two-character option string is -h, which takes no argument, so a
\* chain of single-dash options that parses ends in the help action.
RECURSIVE ConsumeExplicit(_, _, _)
ConsumeExplicit(action, option_string, explicit_arg) ==
    IF /\ ArgCount(action) = 0
       /\ Char(option_string, 2) \notin PrefixChars
       /\ explicit_arg # ""
    THEN LET next_option == Char(option_string, 1) \o Char(explicit_arg, 1)
             rest == SubSeq(explicit_arg, 2, Len(explicit_arg))
         IN  IF IsOptionString(next_option)
             THEN IF rest = "" THEN Help
                  ELSE ConsumeExplicit(ActionOf(next_option), next_option, rest)
             ELSE Error(ArgumentError(action,
                        "ignored explicit argument " \o Repr(explicit_arg)))
    ELSE IF ArgCount(action) = 1 THEN Ok(Some(explicit_arg), <<>>)
    ELSE Error(ArgumentError(action,
               "ignored explicit argument " \o Repr(explicit_arg)))

\* the loop of _parse_known_args over the classified tokens: positionals and
\* unknown options go to extras, --name stores the following positional,
\* help prints and exits, a missing value is an error
RECURSIVE Consume(_, _, _, _, _)
Consume(arg_strings, parsed, i, name, extras) ==
    IF i > Len(arg_strings) THEN Ok(name, extras)
    ELSE LET p == parsed[i] IN
         IF p.kind = "A" \/ p.action = "none"
         THEN Consume(arg_strings, parsed, i + 1, name, Append(extras, arg_strings[i]))
         ELSE IF p.explicit_arg # None
              THEN LET r == ConsumeExplicit(p.action, p.option_string, p.explicit_arg[1])
                   IN  IF r.kind = "ok"
                       THEN Consume(arg_strings, parsed, i + 1, r.name, extras)
                       ELSE r
              ELSE IF p.action = "help" THEN Help
              ELSE IF i < Len(arg_strings) /\ parsed[i + 1].kind = "A"
                   THEN Consume(arg_strings, parsed, i + 2,
                                Some(arg_strings[i + 1]), extras)
                   ELSE Error(ArgumentError(p.action, "expected one argument"))

\* parser.parse_known_args(arg_strings)
ParseKnownArgs(arg_strings) ==
    LET parsed == [i \in 1..Len(arg_strings) |-> ParseOptional(arg_strings[i])]
        ambiguous == { i \in 1..Len(arg_strings) : parsed[i].kind = "ambiguous" }
    IN  IF ambiguous # {}
        THEN LET first == CHOOSE i \in ambiguous : \A j \in ambiguous : i <= j
             IN  Error("ambiguous option: " \o parsed[first].option_string
                       \o " could match " \o parsed[first].explicit_arg[1])
        ELSE Consume(arg_strings, parsed, 1, None, <<>>)

(***************************************************************************)
(* The run                                                                 *)
(***************************************************************************)
\* process start, after greeting = "..." and the construction of the parser
Init ==
    /\ \E toks \in InputTokens, style \in WhitespaceStyles, present \in BOOLEAN :
          /\ tokens_in = IF present THEN toks ELSE <<>>
          /\ env = IF present THEN Some(Layout(toks, style)) ELSE None
    /\ pc = "read_env"
    /\ global_args_str = ""
    /\ parse_called = FALSE
    /\ args_name = None
    /\ greeting = DefaultGreeting
    /\ stdout = <<>>
    /\ stderr = <<>>
    /\ exit_status = None

\* global_args_str = os.environ.get(...)
ReadEnv ==
    /\ pc = "read_env"
    /\ global_args_str' = EnvGet(env)
    /\ pc' = "check_args"
    /\ UNCHANGED <<env, tokens_in, parse_called, args_name, greeting,
                   stdout, stderr, exit_status>>

\* if global_args_str: is false
SkipParse ==
    /\ pc = "check_args"
    /\ ~StrTruthy(global_args_str)
    /\ pc' = "print_stdout"
    /\ UNCHANGED <<env, tokens_in, global_args_str, parse_called, args_name,
                   greeting, stdout, stderr, exit_status>>

\* parse_known_args returns; if args.name: greeting = ...
ParseOk ==
    /\ pc = "check_args"
    /\ StrTruthy(global_args_str)
    /\ LET r == ParseKnownArgs(Split(global_args_str))
       IN  /\ r.kind = "ok"
           /\ args_name' = r.name
           /\ greeting' = IF NameTruthy(r.name) THEN Greet(r.name[1]) ELSE greeting
    /\ parse_called' = TRUE
    /\ pc' = "print_stdout"
    /\ UNCHANGED <<env, tokens_in, global_args_str, stdout, stderr, exit_status>>

\* parse_known_args calls parser.error: usage and message on stderr, exit 2
ParseError ==
    /\ pc = "check_args"
    /\ StrTruthy(global_args_str)
    /\ LET r == ParseKnownArgs(Split(global_args_str))
       IN  /\ r.kind = "error"
           /\ stderr' = stderr \o <<UsageLine, ErrorLine(r.message)>>
    /\ parse_called' = TRUE
    /\ exit_status' = Some(2)
    /\ pc' = "exited"
    /\ UNCHANGED <<env, tokens_in, global_args_str, args_name, greeting, stdout>>

\* parse_known_args takes the help action: help on stdout, exit 0
ParseHelp ==
    /\ pc = "check_args"
    /\ StrTruthy(global_args_str)
    /\ LET r == ParseKnownArgs(Split(global_args_str))
       IN  r.kind = "help"
    /\ stdout' = stdout \o HelpLines
    /\ parse_called' = TRUE
    /\ exit_status' = Some(0)
    /\ pc' = "exited"
    /\ UNCHANGED <<env, tokens_in, global_args_str, args_name, greeting, stderr>>

\* print(f'DEMO_GREETING="{greeting}"')
PrintStdout ==
    /\ pc = "print_stdout"
    /\ stdout' = Append(stdout, StdoutLine(greeting))
    /\ pc' = "print_stderr"
    /\ UNCHANGED <<env, tokens_in, global_args_str, parse_called, args_name,
                   greeting, stderr, exit_status>>

\* print("env_setup.py: Setting DEMO_GREETING", file=sys.stderr)
PrintStderr ==
    /\ pc = "print_stderr"
    /\ stderr' = Append(stderr, StderrLine)
    /\ pc' = "return"
    /\ UNCHANGED <<env, tokens_in, global_args_str, parse_called, args_name,
                   greeting, stdout, exit_status>>

\* main() returns and the interpreter exits
Return ==
    /\ pc = "return"
    /\ exit_status' = Some(0)
    /\ pc' = "exited"
    /\ UNCHANGED <<env, tokens_in, global_args_str, parse_called, args_name,
                   greeting, stdout, stderr>>

Next ==
    \/ ReadEnv
    \/ SkipParse
    \/ ParseOk
    \/ ParseError
    \/ ParseHelp
    \/ PrintStdout
    \/ PrintStderr
    \/ Return

Spec == Init /\ [][Next]_vars

(***************************************************************************)
(* Definitions used to state the properties                                *)
(***************************************************************************)
Exited == pc = "exited"

\* what one run writes to standard output for a given token sequence
StdoutOf(toks) ==
    LET r == ParseKnownArgs(toks)
    IN  IF r.kind = "ok"
        THEN <<StdoutLine(IF NameTruthy(r.name) THEN Greet(r.name[1])
                          ELSE DefaultGreeting)>>
        ELSE IF r.kind = "help" THEN HelpLines
        ELSE <<>>

\* the exit status of one run for a given token sequence
ExitStatusOf(toks) == IF ParseKnownArgs(toks).kind = "error" THEN 2 ELSE 0

\* the token sequence with every token removed that is neither the exact flag
\* --name nor the token following it
RECURSIVE Recognized(_)
Recognized(toks) ==
    IF toks = <<>> THEN <<>>
    ELSE IF Head(toks) = "--name"
         THEN IF Len(toks) >= 2
              THEN <<toks[1], toks[2]>> \o Recognized(SubSeq(toks, 3, Len(toks)))
              ELSE toks
         ELSE Recognized(Tail(toks))

\* the values of the `--name <value>` pairs of a token sequence, in order; a
\* value is a following token that does not begin with "-"
RECURSIVE NamePairValues(_)
NamePairValues(toks) ==
    IF Len(toks) < 2 THEN <<>>
    ELSE IF toks[1] = "--name" /\ Char(toks[2], 1) # "-"
         THEN <<toks[2]>> \o NamePairValues(SubSeq(toks, 3, Len(toks)))
         ELSE NamePairValues(Tail(toks))

(***************************************************************************)
(* Properties                                                              *)
(***************************************************************************)

\* C1: when UBER_GLOBAL_COMMAND_ARGS consists of the single token --name
\* (value missing), the run falls back to the default greeting: stdout is
\* exactly DEMO_GREETING="Hello from the env_setup.py script!" and no value
\* is captured.
C1_MissingValueFallsBack ==
    (Exited /\ env # None /\ tokens_in = <<"--name">>)
        => /\ stdout = <<StdoutLine(DefaultGreeting)>>
           /\ args_name = None

\* C2: for every value of UBER_GLOBAL_COMMAND_ARGS the process exits with
\* status 0.
C2_ExitStatusAlwaysZero ==
    Exited => exit_status = Some(0)

\* C3: one run writes exactly one line to standard output, of the form
\* DEMO_GREETING="<greeting>"; never zero lines, never additional lines.
C3_ExactlyOneStdoutLine ==
    /\ Len(stdout) <= 1
    /\ Exited => stdout = <<StdoutLine(greeting)>>

\* C4: unrecognized tokens are silently ignored: the run's stdout equals the
\* stdout of the same token sequence with every token other than the exact
\* flag --name and its following value removed, and such a token causes no
\* error (the exit status is that of the reduced sequence as well).
C4_UnrecognizedTokensIgnored ==
    (Exited /\ env # None)
        => /\ stdout = StdoutOf(Recognized(tokens_in))
           /\ exit_status = Some(ExitStatusOf(Recognized(tokens_in)))

\* C5: when the token sequence contains --name immediately followed by a
\* non-empty token v, stdout is DEMO_GREETING="Hello, v!" with v copied
\* literally, for every token v, including one that begins with "-".  With
\* several such occurrences the last one is the one meant (see C10).
C5_NameValueCopiedLiterally ==
    LET followed == { i \in 1..(Len(tokens_in) - 1) :
                        tokens_in[i] = "--name" /\ tokens_in[i + 1] # "" }
    IN  (Exited /\ followed # {})
            => LET last == CHOOSE i \in followed : \A j \in followed : j <= i
               IN  stdout = <<StdoutLine(Greet(tokens_in[last + 1]))>>

\* C6: when UBER_GLOBAL_COMMAND_ARGS is absent or the empty string, argument
\* parsing is skipped and stdout is exactly
\* DEMO_GREETING="Hello from the env_setup.py script!".
C6_AbsentOrEmptyGivesDefault ==
    (env = None \/ env = Some(""))
        => /\ ~parse_called
           /\ Exited =>
                stdout = <<"DEMO_GREETING=\"Hello from the env_setup.py script!\"">>

\* C6 witness: a finished run with the variable set to the empty string.
C6_Witness ==
    /\ Exited
    /\ env = Some("")
    /\ ~parse_called
    /\ stdout = <<"DEMO_GREETING=\"Hello from the env_setup.py script!\"">>

\* C7: one run writes the line "env_setup.py: Setting DEMO_GREETING" to
\* standard error exactly once, and standard error carries no other line,
\* whatever the parsing outcome.
C7_StderrLineExactlyOnce ==
    /\ \A i \in 1..Len(stderr) : stderr[i] = StderrLine
    /\ Len(stderr) <= 1
    /\ Exited => stderr = <<StderrLine>>

\* C8: in every state of a run the greeting is non-empty: it is the fixed
\* default or "Hello, <name>!" with a non-empty captured name, and an empty
\* or missing name never replaces the default.
C8_GreetingNonEmpty ==
    /\ greeting # ""
    /\ \/ greeting = DefaultGreeting
       \/ /\ args_name # None
          /\ args_name[1] # ""
          /\ greeting = "Hello, " \o args_name[1] \o "!"
    /\ (args_name = None \/ args_name = Some("")) => greeting = DefaultGreeting

\* C8 witness: an empty name was captured (--name=) and the default greeting
\* has been written to stdout.
C8_Witness ==
    /\ pc = "print_stderr"
    /\ args_name = Some("")
    /\ stdout = <<StdoutLine(DefaultGreeting)>>

\* C10: when the token sequence contains more than one `--name <value>` pair,
\* the greeting is built from the value of the last pair and the run emits
\* exactly one DEMO_GREETING line.
C10_LastNamePairWins ==
    LET values == NamePairValues(tokens_in)
    IN  (Exited /\ Len(values) > 1)
            => stdout = <<StdoutLine(Greet(values[Len(values)]))>>

====
